---- MODULE Spec2Model ----
(***************************************************************************)
(* A model of rusty-checkers (src/src/main.rs): the board with its         *)
(* orientation-aware accessors, the oriented index, the move generator,    *)
(* the move validation and Game::make_move with the turn change.           *)
(*                                                                         *)
(* Rust values are modelled as follows.                                    *)
(*   Tile, Player        strings named as the enum variants                *)
(*   Index               [orientation, x, y]                               *)
(*   Option<T>           None is <<>>, Some(v) is <<v>>                    *)
(*   Result<T, &str>     [kind |-> "Ok", val |-> v] or                     *)
(*                       [kind |-> "Err", msg |-> m]; a panic that unwinds *)
(*                       out of the function is [kind |-> "Panic", msg]    *)
(*   Board               [height, width, tiles], tiles a sequence holding  *)
(*                       tiles[x + y * width] of the code at x+y*width+1   *)
(*   Game                [board, state]                                    *)
(***************************************************************************)
EXTENDS Integers, Sequences, FiniteSets, TLC

\* board, state   the fields of Game
\* result         what the last call returned, or the panic that ended it
\* last           the AvailableMove the last make_move executed, if any; after
\*                a direct call of set_tile, the tile it was given
\* asked          the index of the last direct call of the rule engine or of
\*                an accessor of the board
\* nmoves         the number of make_move calls that returned Ok
VARIABLES board, state, result, last, asked, nmoves

vars == <<board, state, result, last, asked, nmoves>>

\* ------------------------------------------------------------------ bounds

\* Game::new builds the board of 10 x 10.
BoardSize == 10

\* The rule engine, asked directly, takes any board: it is asked about the
\* square boards of size 2 * HalfSize.
HalfSize == 2

EngineSize == 2 * HalfSize

\* make_move is called at most MaxMoves times successfully in a behaviour.
MaxMoves == 3

\* A requested target is at most Reach columns and Reach rows from the source.
Reach == 2

\* Board::new is applied to every height up to MaxHeight and every width up
\* to MaxWidth.
MaxHeight == 12

MaxWidth == 14

\* The boards the rule engine is asked about hold up to MaxPieces pieces.
MaxPieces == 3

\* ------------------------------------------------------------ value types

Players == {"White", "Black"}

Tiles == {"Empty", "White", "Black", "BlackKing", "WhiteKing"}

Directions == {"NW", "NE", "SE", "SW"}

None == <<>>

Some(v) == <<v>>

Ok(v) == [kind |-> "Ok", val |-> v]

Err(m) == [kind |-> "Err", msg |-> m]

Panic(m) == [kind |-> "Panic", msg |-> m]

INTERNAL_ERROR_MESSAGE == "Internal error, shouldn't get here. Oooops..."

Turn(p) == [tag |-> "Turn", player |-> p]

Won(p) == [tag |-> "Won", player |-> p]

GameStates == {Turn(p) : p \in Players} \cup {Won(p) : p \in Players}

get_enemy(player) == IF player = "White" THEN "Black" ELSE "White"

get_tile_owner(tile) ==
    CASE tile \in {"Black", "BlackKing"} -> Some("Black")
      [] tile \in {"White", "WhiteKing"} -> Some("White")
      [] OTHER -> None

\* ------------------------------------------------------------------ Index

Index_new(x, y, orientation) == [orientation |-> orientation, x |-> x, y |-> y]

\* usize::try_from fails exactly on a negative sum.
translate(self, x, y) ==
    IF self.x + x < 0 \/ self.y + y < 0
    THEN None
    ELSE Some(Index_new(self.x + x, self.y + y, self.orientation))

\* ------------------------------------------------------------------ Board

\* NewTile with the parity test of the square inverted.
NewTile_light(height, width, x, y) ==
    IF y = height \div 2 \/ y = height \div 2 - 1
    THEN "Empty"
    ELSE IF (x + y) % 2 = 0
         THEN (IF y < height \div 2 THEN "Black" ELSE "White")
         ELSE "Empty"

\* The tile the loops of Board::new leave on (x, y).
NewTile(height, width, x, y) ==
    IF y = height \div 2 \/ y = height \div 2 - 1
    THEN "Empty"
    ELSE IF (x + y) % 2 = 1
         THEN (IF y < height \div 2 THEN "Black" ELSE "White")
         ELSE "Empty"

\* Board::new: the assertion, then the two loops, which write each cell once.
Board_new(height, width) ==
    IF height % 2 # 0
    THEN Panic("Board vertical size cannot be odd!")
    ELSE Ok([height |-> height,
             width  |-> width,
             tiles  |-> [i \in 1..(height * width) |->
                            NewTile(height, width, (i - 1) % width,
                                    (i - 1) \div width)]])

validate_index(b, index) == index.x < b.width /\ index.y < b.height

\* reverse_index keeping the orientation of the index.
reverse_index_same_side(b, index) ==
    Index_new(b.width - index.x - 1, b.height - index.y - 1, index.orientation)

\* Every caller passes an index with x < width and y < height (get_tile_black
\* and set_tile_black validate first, reverse_move follows the bounds checks of
\* the parser on a square board), so the usize subtractions do not underflow.
reverse_index(b, index) ==
    Index_new(b.width - index.x - 1, b.height - index.y - 1,
              get_enemy(index.orientation))

get_tile_white(b, index) ==
    IF index.orientation # "White"
    THEN Panic("get_tile_white called with black player Index")
    ELSE IF ~validate_index(b, index)
         THEN Err("Index outside of board")
         ELSE Ok(b.tiles[index.x + index.y * b.width + 1])

\* set_tile_white writing the cell of the column y and the row x.
set_tile_white_transposed(b, index, tile) ==
    IF index.orientation # "White"
    THEN Panic("set_tile_white called with black player Index")
    ELSE IF ~validate_index(b, index)
         THEN Err("Index outside of board")
         ELSE Ok([b EXCEPT !.tiles[index.y + index.x * b.width + 1] = tile])

set_tile_white(b, index, tile) ==
    IF index.orientation # "White"
    THEN Panic("set_tile_white called with black player Index")
    ELSE IF ~validate_index(b, index)
         THEN Err("Index outside of board")
         ELSE Ok([b EXCEPT !.tiles[index.x + index.y * b.width + 1] = tile])

\* get_tile_black reading the cell of (x, y) itself.
get_tile_black_direct(b, index) ==
    IF index.orientation # "Black"
    THEN Panic("set_tile_black called with white player Index")
    ELSE IF ~validate_index(b, index)
         THEN Err("Index outside of board")
         ELSE get_tile_white(b, Index_new(index.x, index.y, "White"))

get_tile_black(b, index) ==
    IF index.orientation # "Black"
    THEN Panic("set_tile_black called with white player Index")
    ELSE IF ~validate_index(b, index)
         THEN Err("Index outside of board")
         ELSE get_tile_white(b, reverse_index(b, index))

set_tile_black(b, index, tile) ==
    IF index.orientation # "Black"
    THEN Panic("set_tile_black called with white player Index")
    ELSE IF ~validate_index(b, index)
         THEN Err("Index outside of board")
         ELSE set_tile_white(b, reverse_index(b, index), tile)

\* get_tile taking the path of White's frame whatever the orientation.
get_tile_unoriented(b, index) == get_tile_white(b, index)

get_tile(b, index) ==
    IF index.orientation = "White"
    THEN get_tile_white(b, index)
    ELSE get_tile_black(b, index)

\* The Ok value is the board after the write (the code mutates it in place).
set_tile(b, index, tile) ==
    IF index.orientation = "White"
    THEN set_tile_white(b, index, tile)
    ELSE set_tile_black(b, index, tile)

\* ------------------------------------------------------------- Move model

Move_new(source, target) == [source |-> source, target |-> target]

AvailableMove_new(source, move_type) == [source |-> source, move_type |-> move_type]

\* MoveType::Move(index)
MoveT(index) == [tag |-> "Move", index |-> index]

\* MoveType::Capture { target_index, captured_index }
CaptureT(target_index, captured_index) ==
    [tag |-> "Capture", target_index |-> target_index,
     captured_index |-> captured_index]

\* ------------------------------------------------------------ Rule engine

\* TargetOffset with the landing square next to the source on its row.
TargetOffset_sideways(direction) ==
    CASE direction = "NW" -> <<-1, 0>>
      [] direction = "NE" -> <<1, 0>>
      [] direction = "SE" -> <<1, 0>>
      [] direction = "SW" -> <<-1, 0>>

\* The two-step offset of the landing square, per direction.
TargetOffset(direction) ==
    CASE direction = "NW" -> <<-2, -2>>
      [] direction = "NE" -> <<2, -2>>
      [] direction = "SE" -> <<2, 2>>
      [] direction = "SW" -> <<-2, 2>>

\* CapturedOffset with the offsets of NW and NE exchanged.
CapturedOffset_swapped(direction) ==
    CASE direction = "NW" -> <<1, -1>>
      [] direction = "NE" -> <<-1, -1>>
      [] direction = "SE" -> <<1, 1>>
      [] direction = "SW" -> <<-1, 1>>

\* The one-step offset of the captured square, per direction.
CapturedOffset(direction) ==
    CASE direction = "NW" -> <<-1, -1>>
      [] direction = "NE" -> <<1, -1>>
      [] direction = "SE" -> <<1, 1>>
      [] direction = "SW" -> <<-1, 1>>

\* check_capture_move is written as a chain: each step holds one early return
\* of the code and hands the value it has computed to the next.

\* The captured tile has been read: it must belong to the enemy.
capture_checked(source, enemy_player, target_index, captured_index, captured_tile) ==
    IF captured_tile.kind # "Ok"
    THEN Panic("called Result::unwrap() on an Err value")
    ELSE IF get_tile_owner(captured_tile.val) # Some(enemy_player)
         THEN Err("Tile to be captured does not belong to enemy")
         ELSE Ok(AvailableMove_new(source, CaptureT(target_index, captured_index)))

\* The index of the captured tile has been computed and is unwrapped.
capture_over(b, source, enemy_player, target_index, captured) ==
    IF captured = None
    THEN Panic("called Option::unwrap() on a None value")
    ELSE capture_checked(source, enemy_player, target_index, captured[1],
                         get_tile(b, captured[1]))

\* capture_landing taking the captured square three steps from the source.
capture_landing_far(b, source, direction, enemy_player, target_index, target_tile) ==
    IF target_tile.kind # "Ok" THEN target_tile
    ELSE IF target_tile.val # "Empty" THEN Err("Target tile is not empty")
    ELSE capture_over(b, source, enemy_player, target_index,
                      translate(source, 3 * CapturedOffset(direction)[1],
                                3 * CapturedOffset(direction)[2]))

\* The target tile has been read: it must be on the board and Empty.
capture_landing(b, source, direction, enemy_player, target_index, target_tile) ==
    IF target_tile.kind # "Ok" THEN target_tile
    ELSE IF target_tile.val # "Empty" THEN Err("Target tile is not empty")
    ELSE capture_over(b, source, enemy_player, target_index,
                      translate(source, CapturedOffset(direction)[1],
                                CapturedOffset(direction)[2]))

\* The target index has been computed: translate must have returned one.
capture_target(b, source, direction, enemy_player, target) ==
    IF target = None THEN Err("Target tile is outside of the board")
    ELSE capture_landing(b, source, direction, enemy_player, target[1],
                         get_tile(b, target[1]))

\* The source tile has been read: it must be on the board and have an owner.
capture_from(b, source, direction, source_tile) ==
    IF source_tile.kind # "Ok" THEN source_tile
    ELSE IF get_tile_owner(source_tile.val) = None THEN Err("Source tile is empty")
    ELSE capture_target(b, source, direction,
                        get_enemy(get_tile_owner(source_tile.val)[1]),
                        translate(source, TargetOffset(direction)[1],
                                  TargetOffset(direction)[2]))

check_capture_move(b, source, direction) ==
    capture_from(b, source, direction, get_tile(b, source))

\* The entry pushed for a diagonal, given translate's value and the tile read
\* there (an Err when translate returned nothing).
DiagonalEntry(source, diagonal, tile) ==
    IF diagonal # None /\ tile.kind = "Ok" /\ tile.val = "Empty"
    THEN <<AvailableMove_new(source, MoveT(diagonal[1]))>>
    ELSE <<>>

\* DiagonalMove stepping along (dx, 1), away from the far row of the frame.
DiagonalMove_backward(b, source, dx) ==
    DiagonalEntry(source, translate(source, dx, 1),
                  IF translate(source, dx, 1) = None
                  THEN Err("Index outside of board")
                  ELSE get_tile(b, translate(source, dx, 1)[1]))

\* The simple move of a man one step along (dx, -1): the pushed entry, if any.
DiagonalMove(b, source, dx) ==
    DiagonalEntry(source, translate(source, dx, -1),
                  IF translate(source, dx, -1) = None
                  THEN Err("Index outside of board")
                  ELSE get_tile(b, translate(source, dx, -1)[1]))

\* CaptureEntry pushing the capture twice.
CaptureEntry_twice(r) == IF r.kind = "Ok" THEN <<r.val, r.val>> ELSE <<>>

\* if let Ok(available_move) = check_capture_move(..): the pushed entry, if any.
CaptureEntry(r) == IF r.kind = "Ok" THEN <<r.val>> ELSE <<>>

\* The moves of a man, given what check_capture_move returned per direction.
MovesOfMan(b, source, ne, nw, se, sw) ==
    IF "Panic" \in {ne.kind, nw.kind, se.kind, sw.kind}
    THEN Panic("called unwrap() in check_capture_move")
    ELSE Ok(DiagonalMove(b, source, -1) \o DiagonalMove(b, source, 1)
            \o CaptureEntry(ne) \o CaptureEntry(nw)
            \o CaptureEntry(se) \o CaptureEntry(sw))

\* match pawn { .. }: the moves of a man, none for a king, a panic for Empty.
MovesOfPawn(b, source, pawn) ==
    CASE pawn \in {"White", "Black"} ->
            MovesOfMan(b, source,
                       check_capture_move(b, source, "NE"),
                       check_capture_move(b, source, "NW"),
                       check_capture_move(b, source, "SE"),
                       check_capture_move(b, source, "SW"))
      [] pawn \in {"WhiteKing", "BlackKing"} -> Ok(<<>>)
      [] OTHER -> Panic(INTERNAL_ERROR_MESSAGE)

\* moves_for without the test for an empty source.
moves_for_unchecked(b, source, pawn) ==
    IF pawn.kind # "Ok" THEN pawn ELSE MovesOfPawn(b, source, pawn.val)

\* The source tile has been read.
moves_for(b, source, pawn) ==
    IF pawn.kind # "Ok" THEN pawn
    ELSE IF pawn.val = "Empty" THEN Err("Source is an empty tile")
    ELSE MovesOfPawn(b, source, pawn.val)

get_allowed_moves_for(b, source) == moves_for(b, source, get_tile(b, source))

\* The target a listed move is matched on; multi-captures are filtered out
\* before the search and match nothing.
MatchesTarget(available_move, target) ==
    LET t == available_move.move_type IN
    CASE t.tag \in {"Move", "KingMove"} -> t.index = target
      [] t.tag \in {"Capture", "KingCapture"} -> t.target_index = target
      [] OTHER -> FALSE

\* The first of the listed moves that match, if any.
FirstOf(hits) == IF hits = <<>> THEN None ELSE Some(hits[1])

\* find_move_in_available taking the first listed move whatever its target.
find_move_in_available_first(available_moves, game_move) ==
    IF available_moves = <<>> THEN None ELSE Some(available_moves[1])

find_move_in_available(available_moves, game_move) ==
    FirstOf(SelectSeq(available_moves,
                      LAMBDA x : MatchesTarget(x, game_move.target)))

\* The search has been made.
move_found(found) == IF found = None THEN Err("Illegal move") ELSE Ok(found[1])

\* The moves of the source have been computed.
move_among(available_moves, game_move) ==
    IF available_moves.kind # "Ok" THEN available_moves
    ELSE move_found(find_move_in_available(available_moves.val, game_move))

\* check_move with capture forced over the whole board: a simple move is
\* refused when a piece on the side of the source has a capture.
check_move_forced(game, game_move) ==
    IF game.state.tag = "Won" THEN Err("The game is already finished")
    ELSE IF \E x \in 0..(game.board.width - 1), y \in 0..(game.board.height - 1) :
               /\ get_tile_owner(get_tile(game.board,
                        Index_new(x, y, game_move.source.orientation)).val)
                     = get_tile_owner(get_tile(game.board, game_move.source).val)
               /\ \E direction \in Directions :
                     check_capture_move(game.board,
                         Index_new(x, y, game_move.source.orientation),
                         direction).kind = "Ok"
         THEN Err("Illegal move")
         ELSE move_among(get_allowed_moves_for(game.board, game_move.source),
                         game_move)

check_move(game, game_move) ==
    IF game.state.tag = "Won" THEN Err("The game is already finished")
    ELSE move_among(get_allowed_moves_for(game.board, game_move.source), game_move)

\* ------------------------------------------------------- Notation parsing

\* A description is what ALGEBRAIC_NOTATION_REGEX makes of the text: no match,
\* or the four groups of its first match. A letter is its character code, a
\* number the sequence of its decimal digits.
NoMatch == [is_match |-> FALSE]

Matched(sl, sn, tl, tn) ==
    [is_match |-> TRUE, source_letter |-> sl, source_number |-> sn,
     target_letter |-> tl, target_number |-> tn]

I32_MAX == 2147483647

CHAR_A == 65

\* str::parse::<i32> on a digit string: the value, or an overflow error.
RECURSIVE ParseI32From(_, _, _)
ParseI32From(digits, i, acc) ==
    IF i > Len(digits) THEN Ok(acc)
    ELSE IF acc > (I32_MAX - digits[i]) \div 10
         THEN Err("number too large to fit in target type")
         ELSE ParseI32From(digits, i + 1, acc * 10 + digits[i])

ParseI32(digits) == ParseI32From(digits, 1, 0)

\* usize::try_from(n) followed by the comparison with the board's height.
BoardCoordinate(b, n, msg) ==
    IF n < 0 THEN Err(msg)
    ELSE IF n < b.height THEN Ok(n) ELSE Err(msg)

reverse_move(b, game_move) ==
    Move_new(reverse_index(b, game_move.source), reverse_index(b, game_move.target))

\* The four indices have been computed: the first that is outside the board is
\* returned, else the move, reversed on Black's turn.
parsed_move(game, sh, sv, th, tv) ==
    IF sh.kind # "Ok" THEN sh
    ELSE IF sv.kind # "Ok" THEN sv
    ELSE IF th.kind # "Ok" THEN th
    ELSE IF tv.kind # "Ok" THEN tv
    ELSE IF game.state.tag = "Won" THEN Panic("The game has ended already")
    ELSE IF game.state.player = "White"
    THEN Ok(Move_new(Index_new(sh.val, sv.val, "White"),
                     Index_new(th.val, tv.val, "White")))
    ELSE Ok(reverse_move(game.board,
                         Move_new(Index_new(sh.val, sv.val, "White"),
                                  Index_new(th.val, tv.val, "White"))))

\* The two numbers have been parsed and are unwrapped.
parsed_numbers(game, description, source_number, target_number) ==
    IF source_number.kind # "Ok" \/ target_number.kind # "Ok"
    THEN Panic("called Result::unwrap() on an Err value")
    ELSE parsed_move(game,
            BoardCoordinate(game.board, description.source_letter - CHAR_A,
                            "Horizontal source index is outside the board"),
            BoardCoordinate(game.board, source_number.val - 1,
                            "Vertical source index is outside the board"),
            BoardCoordinate(game.board, description.target_letter - CHAR_A,
                            "Horizontal target index is outside the board"),
            BoardCoordinate(game.board, target_number.val - 1,
                            "Vertical target index is outside the board"))

parse_move_description(game, description) ==
    IF ~description.is_match THEN Err("Move does not match required notation")
    ELSE parsed_numbers(game, description, ParseI32(description.source_number),
                        ParseI32(description.target_number))

\* ------------------------------------------------------- Turn controller

Game_of(b, s) == [board |-> b, state |-> s]

\* What a call leaves behind: the game, what the call returned (or the panic
\* that ended it), and the AvailableMove it executed, if it got that far.
Outcome(game, res, move) == [game |-> game, result |-> res, move |-> move]

\* change_turn leaving the turn with the player who moved.
change_turn_stuck(game) == Outcome(game, Ok(<<>>), None)

change_turn(game) ==
    IF game.state.tag = "Won"
    THEN Outcome(game, Panic("The game has already ended!"), None)
    ELSE Outcome([game EXCEPT !.state = Turn(get_enemy(game.state.player))],
                 Ok(<<>>), None)

\* .expect(INTERNAL_ERROR_MESSAGE)
Expect(r) == IF r.kind = "Ok" THEN r ELSE Panic(INTERNAL_ERROR_MESSAGE)

\* RemoveCaptured leaving the captured pawn on the board.
RemoveCaptured_kept(b, game_move) == Ok(b)

\* The removal of the captured pawns: the board after it, or a panic.
RemoveCaptured(b, game_move) ==
    LET t == game_move.move_type IN
    CASE t.tag \in {"Move", "KingMove"} -> Ok(b)
      [] t.tag = "Capture" -> Expect(set_tile(b, t.captured_index, "Empty"))
      [] OTHER -> Panic("not implemented")

\* make_move is written as a chain: each step holds one early return or
\* expect of the code and hands the value it has computed to the next.

\* The captured pawns have been removed: the turn changes.
move_turned(game_move, turned) ==
    Outcome(turned.game, turned.result, Some(game_move))

move_captured(game, game_move, b2, b3) ==
    IF b3.kind # "Ok"
    THEN Outcome([game EXCEPT !.board = b2], b3, Some(game_move))
    ELSE move_turned(game_move, change_turn([game EXCEPT !.board = b3.val]))

\* The pawn has been put on the target.
move_put(game, game_move, b1, b2) ==
    IF b2.kind # "Ok"
    THEN Outcome([game EXCEPT !.board = b1], Panic(INTERNAL_ERROR_MESSAGE),
                 Some(game_move))
    ELSE move_captured(game, game_move, b2.val, RemoveCaptured(b2.val, game_move))

\* The pawn has been removed from the source.
move_lifted(game, board_move, game_move, pawn, b1) ==
    IF b1.kind # "Ok"
    THEN Outcome(game, Panic(INTERNAL_ERROR_MESSAGE), Some(game_move))
    ELSE move_put(game, game_move, b1.val, set_tile(b1.val, board_move.target, pawn))

\* The source pawn has been read.
move_pawn(game, board_move, game_move, pawn) ==
    IF pawn.kind # "Ok" THEN Outcome(game, pawn, None)
    ELSE move_lifted(game, board_move, game_move, pawn.val,
                     set_tile(game.board, board_move.source, "Empty"))

\* The move has been checked.
move_checked(game, board_move, game_move) ==
    IF game_move.kind # "Ok" THEN Outcome(game, game_move, None)
    ELSE move_pawn(game, board_move, game_move.val,
                   get_tile(game.board, game_move.val.source))

\* The description has been parsed.
move_parsed(game, board_move) ==
    IF board_move.kind # "Ok" THEN Outcome(game, board_move, None)
    ELSE move_checked(game, board_move.val, check_move(game, board_move.val))

\* make_move past its test of the game being over.
make_move_in_progress(game, description) ==
    move_parsed(game, parse_move_description(game, description))

\* make_move without its test of the game being over.
make_move_unguarded(game, description) == make_move_in_progress(game, description)

make_move(game, description) ==
    IF game.state.tag = "Won"
    THEN Outcome(game, Err("You can't make a move, the game has already ended"), None)
    ELSE make_move_in_progress(game, description)

\* ----------------------------------------------------------------- inputs

\* The decimal digits of a row number below 100.
Digits(n) == IF n < 10 THEN <<n>> ELSE <<n \div 10, n % 10>>

\* A row number that does not fit an i32.
TooLargeNumber == <<9, 9, 9, 9, 9, 9, 9, 9, 9, 9>>

\* Column letters A.. up to one column past the board.
Letters == CHAR_A..(CHAR_A + BoardSize)

\* Row numbers 0.. up to one row past the board.
Rows == 0..(BoardSize + 1)

Dist(a, b) == IF a < b THEN b - a ELSE a - b

\* The target is the source, or on a diagonal of it within Reach, or next to it
\* on its row or column.
Aimed(sl, sr, tl, tr) ==
    \/ Dist(sl, tl) = Dist(sr, tr) /\ Dist(sl, tl) <= Reach
    \/ Dist(sl, tl) + Dist(sr, tr) = 1

\* The texts given to make_move: one the regex does not match; every source
\* with every target aimed from it; and, per column, a source row and a target
\* row too large for an i32.
Descriptions ==
    {NoMatch}
    \cup {Matched(sl, Digits(sr), tl, Digits(tr)) :
             <<sl, sr, tl, tr>> \in
                 {q \in Letters \X Rows \X Letters \X Rows :
                     Aimed(q[1], q[2], q[3], q[4])}}
    \cup {Matched(l, TooLargeNumber, l, Digits(1)) : l \in Letters}
    \cup {Matched(l, Digits(1), l, TooLargeNumber) : l \in Letters}

\* The text of a request from the index (sx, sy) to the index (tx, ty), both
\* 0-based in White's frame: the letter of the column and the row number.
Request(sx, sy, tx, ty) ==
    Matched(CHAR_A + sx, Digits(sy + 1), CHAR_A + tx, Digits(ty + 1))

\* A game played to its end: 41 requests, each moving a piece of the player
\* to move, after which Black has one man and no move. "F7 G6" is
\* Request(5, 6, 6, 5).
LongGame ==
    <<Request(5, 6, 6, 5), Request(4, 3, 5, 4), Request(6, 5, 4, 3),
      Request(2, 3, 3, 4), Request(4, 3, 2, 5), Request(0, 3, 1, 4),
      Request(2, 5, 0, 3), Request(6, 3, 7, 4), Request(3, 6, 4, 5),
      Request(7, 4, 6, 5), Request(7, 6, 5, 4), Request(3, 2, 4, 3),
      Request(5, 4, 3, 2), Request(5, 2, 4, 3), Request(3, 2, 5, 4),
      Request(7, 2, 6, 3), Request(5, 4, 7, 2), Request(4, 1, 3, 2),
      Request(7, 2, 9, 4), Request(9, 2, 8, 3), Request(9, 4, 7, 2),
      Request(5, 0, 4, 1), Request(7, 2, 5, 0), Request(3, 2, 4, 3),
      Request(5, 0, 3, 2), Request(4, 3, 5, 4), Request(4, 5, 6, 3),
      Request(8, 1, 7, 2), Request(6, 3, 8, 1), Request(3, 0, 4, 1),
      Request(3, 2, 5, 0), Request(2, 1, 3, 2), Request(0, 3, 2, 1),
      Request(7, 0, 6, 1), Request(2, 1, 4, 3), Request(1, 0, 2, 1),
      Request(5, 0, 7, 2), Request(2, 1, 3, 2), Request(4, 3, 2, 1),
      Request(0, 1, 1, 2), Request(2, 1, 0, 3)>>

\* What may be typed at the nth call of the long game: its nth request, a text
\* the regex does not match, a request from the light square A1, and the nth
\* request with its source for target.
Typed(n) ==
    {LongGame[n], NoMatch, Request(0, 0, 1, 1),
     Matched(LongGame[n].source_letter, LongGame[n].source_number,
             LongGame[n].source_letter, LongGame[n].source_number)}

\* The calls of the long game: the number of the call and what is typed at it.
LongCalls == {<<n, description>> : n \in 1..Len(LongGame), description \in
                 UNION {Typed(k) : k \in 1..Len(LongGame)}}

\* The indices of the board b, in the orientation o.
BoardIndices(b, o) ==
    {Index_new(x, y, o) : x \in 0..(b.width - 1), y \in 0..(b.height - 1)}

\* The indices of the board b in either orientation.
EveryIndex(b) == BoardIndices(b, "White") \cup BoardIndices(b, "Black")

\* The indices of the board b, in either orientation, that hold a man.
MenIndices(b) ==
    {index \in EveryIndex(b) : get_tile(b, index).val \in {"White", "Black"}}

\* The indices the accessors of the board b are called on: every index of the
\* board and of the two columns and the two rows past it, in either
\* orientation.
AccessIndices(b) ==
    {Index_new(x, y, o) : x \in 0..(b.width + 1), y \in 0..(b.height + 1),
                          o \in Players}

\* The sources the rule engine is asked about: every index of the board and
\* of the column and the row past it, in either orientation.
QueryIndices ==
    {Index_new(x, y, o) : x \in 0..EngineSize, y \in 0..EngineSize, o \in Players}

Pieces == Tiles \ {"Empty"}

\* The cells of the dark squares ((x + y) odd) of a square board of EngineSize.
DarkCells ==
    {i \in 1..(EngineSize * EngineSize) :
        (((i - 1) % EngineSize) + ((i - 1) \div EngineSize)) % 2 = 1}

\* The ways to put up to k pieces on dark cells from lo on: functions from
\* the cells taken to the pieces on them.
RECURSIVE Placements(_, _)
Placements(k, lo) ==
    IF k = 0 THEN {<<>>}
    ELSE {<<>>} \cup
         UNION {{(c :> t) @@ g : t \in Pieces, g \in Placements(k - 1, c + 1)} :
                   c \in {d \in DarkCells : d >= lo}}

\* The boards of EngineSize with up to k pieces, men or kings, on dark squares.
\* What the move generator returns for a source depends on the squares
\* diagonal to it alone, which are of the colour of the source.
BoardsWith(k) ==
    {[height |-> EngineSize, width |-> EngineSize,
      tiles |-> [i \in 1..(EngineSize * EngineSize) |->
                    IF i \in DOMAIN g THEN g[i] ELSE "Empty"]] :
        g \in Placements(k, 1)}

\* The boards of a game that is over: the board of Game::new emptied but for
\* at most one piece, a man or a king, on a dark square.
WonBoards ==
    {[height |-> BoardSize, width |-> BoardSize,
      tiles |-> [i \in 1..(BoardSize * BoardSize) |->
                    IF i = c /\ (((i - 1) % BoardSize) + ((i - 1) \div BoardSize)) % 2 = 1
                    THEN t ELSE "Empty"]] :
        c \in 1..(BoardSize * BoardSize), t \in Pieces}

\* The size of the square boards a chain of two captures is looked for on: a
\* man that lands two squares away needs two more to capture again.
ChainSize == EngineSize + 2

Men == {"White", "Black"}

\* The dark cells ((x + y) odd) of a square board of ChainSize.
ChainCells ==
    {i \in 1..(ChainSize * ChainSize) :
        (((i - 1) % ChainSize) + ((i - 1) \div ChainSize)) % 2 = 1}

\* The ways to put up to k men on the cells of ChainCells from lo on.
RECURSIVE MenPlacements(_, _)
MenPlacements(k, lo) ==
    IF k = 0 THEN {<<>>}
    ELSE {<<>>} \cup
         UNION {{(c :> t) @@ g : t \in Men, g \in MenPlacements(k - 1, c + 1)} :
                   c \in {d \in ChainCells : d >= lo}}

\* The boards of ChainSize with up to k men on dark squares.
ChainBoards(k) ==
    {[height |-> ChainSize, width |-> ChainSize,
      tiles |-> [i \in 1..(ChainSize * ChainSize) |->
                    IF i \in DOMAIN g THEN g[i] ELSE "Empty"]] :
        g \in MenPlacements(k, 1)}

\* ---------------------------------------------------------- state machine

NoCall == [kind |-> "None"]

\* Game::new, on the board of the model's size.
Init ==
    /\ board = Board_new(BoardSize, BoardSize).val
    /\ state = Turn("White")
    /\ result = NoCall
    /\ last = None
    /\ asked = None
    /\ nmoves = 0

\* One call of Game::make_move from the loop of main. A panic ends the
\* process.
Call(description) ==
    /\ result.kind # "Panic"
    /\ LET out == make_move(Game_of(board, state), description) IN
       /\ board' = out.game.board
       /\ state' = out.game.state
       /\ result' = out.result
       /\ last' = out.move
       /\ nmoves' = IF out.result.kind = "Ok" THEN nmoves + 1 ELSE nmoves
    /\ UNCHANGED asked

\* A call with any description, in a game of up to MaxMoves moves.
MakeMove(description) == nmoves < MaxMoves /\ Call(description)

Next == \E description \in Descriptions : MakeMove(description)

Spec == Init /\ [][Next]_vars

\* The long game, typed into the loop of main with mistakes on the way.
LongMove(call) ==
    /\ nmoves + 1 = call[1]
    /\ call[2] \in Typed(call[1])
    /\ Call(call[2])

NextLong == \E call \in LongCalls : LongMove(call)

SpecLong == Init /\ [][NextLong]_vars

\* The rule engine asked once about a source of a drawn board.
InitAny ==
    /\ board \in BoardsWith(MaxPieces)
    /\ state = Turn("White")
    /\ result = NoCall
    /\ last = None
    /\ asked = None
    /\ nmoves = 0

LegalMoves(source) ==
    /\ result = NoCall
    /\ result' = get_allowed_moves_for(board, source)
    /\ asked' = Some(source)
    /\ UNCHANGED <<board, state, last, nmoves>>

NextAny == \E source \in QueryIndices : LegalMoves(source)

SpecAny == InitAny /\ [][NextAny]_vars

\* make_move called on a game that is over: GameState::Won is a value make_move,
\* check_move and change_turn test for and that no statement of the code
\* assigns, so that such a game is drawn and never played into.
InitWon ==
    /\ board \in WonBoards
    /\ state \in {Won(p) : p \in Players}
    /\ result = NoCall
    /\ last = None
    /\ asked = None
    /\ nmoves = 0

SpecWon == InitWon /\ [][Next]_vars

\* Board::new called once with a drawn height and width.
InitNew ==
    /\ board = [height |-> 0, width |-> 0, tiles |-> <<>>]
    /\ state = Turn("White")
    /\ result = NoCall
    /\ last = None
    /\ asked = None
    /\ nmoves = 0

NewBoard(height, width) ==
    /\ result = NoCall
    /\ LET b == Board_new(height, width) IN
       /\ result' = (IF b.kind = "Ok" THEN Ok(<<height, width>>) ELSE b)
       /\ board' = (IF b.kind = "Ok" THEN b.val ELSE board)
    /\ UNCHANGED <<state, last, asked, nmoves>>

NextNew == \E height \in 0..MaxHeight, width \in 0..MaxWidth : NewBoard(height, width)

SpecNew == InitNew /\ [][NextNew]_vars

\* Board::reverse_index called once on an index of a drawn board: the boards
\* of Board::new of every even height and every width within the bounds, and
\* every index of the board in either orientation.
InitRev ==
    /\ board \in {Board_new(height, width).val :
                     height \in {h \in 0..MaxHeight : h % 2 = 0},
                     width \in 0..MaxWidth}
    /\ state = Turn("White")
    /\ result = NoCall
    /\ last = None
    /\ asked = None
    /\ nmoves = 0

ReverseIndex(index) ==
    /\ result = NoCall
    /\ result' = Ok(reverse_index(board, index))
    /\ asked' = Some(index)
    /\ UNCHANGED <<board, state, last, nmoves>>

NextRev == \E index \in EveryIndex(board) : ReverseIndex(index)

SpecRev == InitRev /\ [][NextRev]_vars

\* The rule engine asked once about a man of a drawn board of ChainSize, in
\* either orientation.
InitChain ==
    /\ board \in ChainBoards(MaxPieces)
    /\ state = Turn("White")
    /\ result = NoCall
    /\ last = None
    /\ asked = None
    /\ nmoves = 0

NextChain == \E source \in MenIndices(board) : LegalMoves(source)

SpecChain == InitChain /\ [][NextChain]_vars

\* The rule engine asked once about a square of an opening board: the square
\* boards of Board::new of every even size within the bounds, and every index
\* of the board in either orientation.
InitOpening ==
    /\ board \in {Board_new(size, size).val :
                     size \in {n \in 0..MaxHeight : n % 2 = 0}}
    /\ state = Turn("White")
    /\ result = NoCall
    /\ last = None
    /\ asked = None
    /\ nmoves = 0

NextOpening == \E source \in EveryIndex(board) : LegalMoves(source)

SpecOpening == InitOpening /\ [][NextOpening]_vars

\* The rule engine asked once about an index of a board of any shape: the
\* boards of InitRev, and every index of the board in either orientation.
SpecShapes == InitRev /\ [][NextOpening]_vars

\* Board::get_tile or Board::set_tile called once on a drawn board: the boards
\* of InitRev, every index of AccessIndices and, for set_tile, every tile.
GetTile(index) ==
    /\ result = NoCall
    /\ result' = get_tile(board, index)
    /\ asked' = Some(index)
    /\ UNCHANGED <<board, state, last, nmoves>>

\* The () of Ok(()).
Unit == "()"

\* What set_tile returned, and the board after the call.
SetTileResult(r) == IF r.kind = "Ok" THEN Ok(Unit) ELSE r

SetTileBoard(b, r) == IF r.kind = "Ok" THEN r.val ELSE b

SetTile(index, tile) ==
    /\ result = NoCall
    /\ result' = SetTileResult(set_tile(board, index, tile))
    /\ board' = SetTileBoard(board, set_tile(board, index, tile))
    /\ asked' = Some(index)
    /\ last' = Some(tile)
    /\ UNCHANGED <<state, nmoves>>

NextAccess ==
    \/ \E index \in AccessIndices(board) : GetTile(index)
    \/ \E index \in AccessIndices(board), tile \in Tiles : SetTile(index, tile)

SpecAccess == InitRev /\ [][NextAccess]_vars

\* ------------------------------------------------- vocabulary of the claims

Enemy(p) == IF p = "White" THEN "Black" ELSE "White"

OwnerOf(tile) ==
    IF tile \in {"White", "WhiteKing"} THEN "White"
    ELSE IF tile \in {"Black", "BlackKing"} THEN "Black"
    ELSE "Nobody"

\* The storage coordinates of the square that (x, y) names in the frame of o.
AbsX(b, o, x) == IF o = "White" THEN x ELSE b.width - 1 - x

AbsY(b, o, y) == IF o = "White" THEN y ELSE b.height - 1 - y

OnBoard(b, x, y) == x >= 0 /\ x < b.width /\ y >= 0 /\ y < b.height

TileAtAbs(b, x, y) == b.tiles[x + y * b.width + 1]

\* The tile on the on-board square that (x, y) names in the frame of o.
TileSeen(b, o, x, y) == TileAtAbs(b, AbsX(b, o, x), AbsY(b, o, y))

TileAtIndex(b, index) == TileSeen(b, index.orientation, index.x, index.y)

TilesOwnedBy(b, p) == {i \in DOMAIN b.tiles : OwnerOf(b.tiles[i]) = p}

\* Where an executed move went, and the squares it captured.
TargetOf(m) ==
    IF m.move_type.tag = "Move" THEN m.move_type.index ELSE m.move_type.target_index

IsCapture(m) == m.move_type.tag = "Capture"

DirOffset(direction) ==
    CASE direction = "NW" -> <<-1, -1>>
      [] direction = "NE" -> <<1, -1>>
      [] direction = "SE" -> <<1, 1>>
      [] direction = "SW" -> <<-1, 1>>

\* The targets of the entries of legal_moves(source); empty when it fails.
LegalTargets(b, source) ==
    LET r == get_allowed_moves_for(b, source) IN
    IF r.kind = "Ok" THEN {TargetOf(r.val[i]) : i \in DOMAIN r.val} ELSE {}

GameOverError == Err("You can't make a move, the game has already ended")

IllegalMoveError == Err("Illegal move")

EmptySourceError == Err("Source is an empty tile")

\* -------------------------------------------------------------------- C1

\* C1 (turn alternation). A call that returns Ok in Turn(p) and leaves the game
\* going leaves Turn(enemy(p)); a call that does not return Ok leaves the state
\* as it was; and the state is Turn(White) exactly when the number of calls
\* that returned Ok is even.
C1_TurnStep ==
    IF result'.kind = "Ok"
    THEN state.tag = "Turn"
         /\ (state'.tag = "Turn" => state' = Turn(Enemy(state.player)))
    ELSE state' = state

C1_TurnParity ==
    state.tag = "Turn" => (state.player = "White" <=> nmoves % 2 = 0)

C1_TurnAlternation == [][C1_TurnStep]_vars /\ []C1_TurnParity

C1_Witness ==
    nmoves = 2 /\ state = Turn("White") /\ result.kind = "Err"

\* -------------------------------------------------------------------- C2

\* C2 (illegal target rejection). In every reachable state, every request
\* whose source holds a piece and whose target is the target of no entry of
\* legal_moves(source) returns the Illegal move error and leaves the board and
\* the state as they were.
C2_IllegalTargetRejected ==
    \A d \in Descriptions :
        LET game == Game_of(board, state)
            m == parse_move_description(game, d)
        IN (/\ m.kind = "Ok"
            /\ TileAtIndex(board, m.val.source) # "Empty"
            /\ m.val.target \notin LegalTargets(board, m.val.source))
           => LET out == make_move(game, d) IN
              out.result = IllegalMoveError /\ out.game = game

C2_Witness ==
    result = IllegalMoveError /\ nmoves >= 1

\* -------------------------------------------------------------------- C3

\* The captures among the returned moves that land on (lx, ly) of the frame o.
C3_CapturesTo(moves, o, lx, ly) ==
    {i \in DOMAIN moves :
        /\ moves[i].move_type.tag = "Capture"
        /\ moves[i].move_type.target_index = Index_new(lx, ly, o)}

\* C3 (capture legality). For a source that holds a man, legal_moves returns a
\* list that has a Capture in a diagonal direction exactly when the landing
\* square two steps away is on the board and Empty and the square one step
\* away holds a tile of the opponent of the man; the captured index of that
\* Capture is the square one step away.
C3_CaptureLegality ==
    (/\ asked # None
     /\ OnBoard(board, asked[1].x, asked[1].y)
     /\ TileAtIndex(board, asked[1]) \in {"White", "Black"})
    => /\ result.kind = "Ok"
       /\ \A direction \in Directions :
            LET s == asked[1]
                o == s.orientation
                mx == s.x + DirOffset(direction)[1]
                my == s.y + DirOffset(direction)[2]
                lx == s.x + 2 * DirOffset(direction)[1]
                ly == s.y + 2 * DirOffset(direction)[2]
                legal == /\ OnBoard(board, lx, ly)
                         /\ TileSeen(board, o, lx, ly) = "Empty"
                         /\ OwnerOf(TileSeen(board, o, mx, my))
                                = Enemy(OwnerOf(TileAtIndex(board, s)))
                caps == C3_CapturesTo(result.val, o, lx, ly)
            IN /\ (caps # {}) <=> legal
               /\ \A i \in caps :
                    result.val[i].move_type.captured_index = Index_new(mx, my, o)

C3_Witness ==
    /\ asked # None
    /\ result.kind = "Ok"
    /\ \E i \in DOMAIN result.val : result.val[i].move_type.tag = "Capture"
    /\ Cardinality({i \in DOMAIN board.tiles : board.tiles[i] # "Empty"}) = 3

\* -------------------------------------------------------------------- C4

\* C4 (capture execution). After a call in Turn(p) that executed a capture,
\* the source square is Empty, the captured square is Empty and the landing
\* square holds a tile of p.
C4_CaptureStep ==
    (result'.kind = "Ok" /\ last' # None /\ IsCapture(last'[1]))
    => LET m == last'[1] IN
       /\ TileAtIndex(board', m.source) = "Empty"
       /\ TileAtIndex(board', m.move_type.captured_index) = "Empty"
       /\ OwnerOf(TileAtIndex(board', TargetOf(m))) = state.player

C4_CaptureExecution == [][C4_CaptureStep]_vars

\* -------------------------------------------------------------------- C5

HasNoTiles(b, p) == TilesOwnedBy(b, p) = {}

\* No piece of p has a legal move, asked in the frame of p.
HasNoLegalMoves(b, p) ==
    \A index \in BoardIndices(b, p) :
        OwnerOf(TileAtIndex(b, index)) = p => LegalTargets(b, index) = {}

\* C5 (win detection). A call in Turn(p) that returns Ok and leaves the enemy
\* of p without tiles, or without a legal move, leaves the state Won(p).
C5_WinStep ==
    (result'.kind = "Ok" /\ state.tag = "Turn")
    => ((HasNoTiles(board', Enemy(state.player))
            \/ HasNoLegalMoves(board', Enemy(state.player)))
        => state' = Won(state.player))

C5_WinDetection == [][C5_WinStep]_vars

\* -------------------------------------------------------------------- C6

\* C6 (promotion). A call that returns Ok and puts a White man on row 0, or a
\* Black man on row height - 1, leaves the king of that player on the target.
C6_PromotionStep ==
    (result'.kind = "Ok" /\ last' # None)
    => LET m == last'[1]
           o == m.source.orientation
           man == TileAtIndex(board, m.source)
           row == AbsY(board, o, TargetOf(m).y)
       IN /\ (man = "White" /\ row = 0)
                => TileAtIndex(board', TargetOf(m)) = "WhiteKing"
          /\ (man = "Black" /\ row = board.height - 1)
                => TileAtIndex(board', TargetOf(m)) = "BlackKing"

C6_Promotion == [][C6_PromotionStep]_vars

\* -------------------------------------------------------------------- C7

\* The storage cells a move touches: its source, its target, what it captured.
C7_Touched(b, m) ==
    LET cell(index) == AbsX(b, index.orientation, index.x)
                       + AbsY(b, index.orientation, index.y) * b.width + 1
    IN {cell(m.source), cell(TargetOf(m))}
       \cup (IF IsCapture(m) THEN {cell(m.move_type.captured_index)} ELSE {})

\* C7 (atomic move application). A call that does not return Ok leaves the
\* board and the state as they were; a call that returns Ok has cleared the
\* source, put the piece of the source on the target, cleared every captured
\* square, left every other square alone and given the turn to the enemy.
C7_AtomicStep ==
    IF result'.kind = "Ok"
    THEN /\ last' # None
         /\ LET m == last'[1] IN
            /\ TileAtIndex(board', m.source) = "Empty"
            /\ TileAtIndex(board', TargetOf(m)) = TileAtIndex(board, m.source)
            /\ IsCapture(m) =>
                  TileAtIndex(board', m.move_type.captured_index) = "Empty"
            /\ \A i \in DOMAIN board.tiles \ C7_Touched(board, m) :
                  board'.tiles[i] = board.tiles[i]
         /\ state.tag = "Turn"
         /\ state' = Turn(Enemy(state.player))
    ELSE board' = board /\ state' = state

C7_AtomicMove == [][C7_AtomicStep]_vars

C7_Witness ==
    /\ result.kind = "Ok"
    /\ last # None
    /\ IsCapture(last[1])
    /\ Cardinality(TilesOwnedBy(board, "White") \cup TilesOwnedBy(board, "Black"))
          = ((BoardSize - 2) * BoardSize) \div 2 - 1

\* -------------------------------------------------------------------- C8

\* C8 (Won is terminal). Every call made in a state Won(p) returns the error
\* of a game that is over and leaves the board and the state as they were.
C8_WonStep ==
    state.tag = "Won"
    => (result' = GameOverError /\ board' = board /\ state' = state)

C8_WonIsTerminal == [][C8_WonStep]_vars

C8_Witness == state.tag = "Won" /\ result = GameOverError

\* -------------------------------------------------------------------- C9

\* C9 (empty source). For every request whose source is an Empty square of the
\* board, legal_moves(source) returns the error of an empty source, and
\* make_move returns that error and leaves the board and the state as they
\* were.
C9_EmptySourceRejected ==
    \A d \in Descriptions :
        LET game == Game_of(board, state)
            m == parse_move_description(game, d)
        IN (m.kind = "Ok" /\ TileAtIndex(board, m.val.source) = "Empty")
           => /\ get_allowed_moves_for(board, m.val.source) = EmptySourceError
              /\ LET out == make_move(game, d) IN
                 out.result = EmptySourceError /\ out.game = game

C9_Witness == result = EmptySourceError /\ nmoves >= 1

\* ------------------------------------------------------------------- C10

C10_Cells(b) == {<<x, y>> \in (0..(b.width - 1)) \X (0..(b.height - 1)) : TRUE}

C10_Layout(b) ==
    LET pieces == {c \in C10_Cells(b) : TileAtAbs(b, c[1], c[2]) # "Empty"}
        black == {c \in pieces : TileAtAbs(b, c[1], c[2]) = "Black"}
        white == {c \in pieces : TileAtAbs(b, c[1], c[2]) = "White"}
    IN /\ Cardinality(pieces) = ((b.height - 2) * b.width) \div 2
       /\ pieces = black \cup white
       /\ Cardinality(black) = Cardinality(white)
       /\ \A c \in black : c[2] < b.height \div 2 - 1
       /\ \A c \in white : c[2] > b.height \div 2
       /\ \A c \in pieces : (c[1] + c[2]) % 2 = 1

\* The board Board::new returned for a height and a width.
C10_Built == result.kind = "Ok" /\ result.val = <<board.height, board.width>>

\* C10 as stated (initial board). For every even height and even width the
\* board of Board::new holds (height - 2) * width / 2 pieces, all men, as many
\* Black as White, Black above the two middle rows and White below them, none
\* on a light square.
C10_InitialBoardAnyHeight ==
    (C10_Built /\ board.height % 2 = 0 /\ board.width % 2 = 0) => C10_Layout(board)

\* C10 as amended (initial board). The same for every even height of at least
\* 2 and every even width.
C10_InitialBoard ==
    (C10_Built /\ board.height % 2 = 0 /\ board.height >= 2 /\ board.width % 2 = 0)
    => C10_Layout(board)

C10_Witness ==
    C10_Built /\ board.height = 8 /\ board.width = 8

\* ------------------------------------------------------------------- C11

\* C11 (orientation involution). For every index i of the board, in either
\* orientation, reverse_index(i) is on the board, has the coordinates
\* (width - 1 - x, height - 1 - y) and the other orientation, and
\* reverse_index(reverse_index(i)) is i.
C11_OrientationInvolution ==
    (asked # None /\ result.kind = "Ok" /\ validate_index(board, asked[1]))
    => /\ validate_index(board, result.val)
       /\ result.val.x >= 0 /\ result.val.y >= 0
       /\ result.val.x = board.width - 1 - asked[1].x
       /\ result.val.y = board.height - 1 - asked[1].y
       /\ result.val.orientation = Enemy(asked[1].orientation)
       /\ reverse_index(board, result.val) = asked[1]

C11_Witness ==
    /\ board.height = 4 /\ board.width = 6
    /\ asked = Some(Index_new(1, 2, "Black"))
    /\ result = Ok(Index_new(4, 1, "White"))

\* ------------------------------------------------------------------- C12

\* C12 (men move only forward). A call that returns Ok and executed a simple
\* move of a man has moved it one row toward the back row of the opponent of
\* its owner: the absolute row of a White man is one less, that of a Black man
\* one more, whoever is to move.
C12_ForwardStep ==
    (result'.kind = "Ok" /\ last' # None /\ ~IsCapture(last'[1]))
    => LET m == last'[1]
           o == m.source.orientation
           man == TileAtIndex(board, m.source)
           from == AbsY(board, o, m.source.y)
           to == AbsY(board, o, TargetOf(m).y)
       IN /\ man = "White" => to = from - 1
          /\ man = "Black" => to = from + 1

C12_MenMoveForward == [][C12_ForwardStep]_vars

\* ------------------------------------------------------------------- C13

\* The board after the capture e of the man on its source: the source and the
\* captured square Empty, the man on the landing square.
C13_After(b, e) ==
    LET man == get_tile(b, e.source).val
        b1 == set_tile(b, e.source, "Empty").val
        b2 == set_tile(b1, e.move_type.target_index, man).val
    IN set_tile(b2, e.move_type.captured_index, "Empty").val

\* The man that made the capture e has a capture from where it landed.
C13_Continues(b, e) ==
    LET r == get_allowed_moves_for(C13_After(b, e), e.move_type.target_index)
    IN r.kind = "Ok" /\ \E j \in DOMAIN r.val : IsCapture(r.val[j])

\* The single captures the man on the source can make, one per direction in
\* which check_capture_move accepts one.
C13_FirstCaptures(b, source) ==
    {check_capture_move(b, source, direction).val :
        direction \in {d \in Directions :
                          check_capture_move(b, source, d).kind = "Ok"}}

\* C13 (multi-capture chains). When the man asked about has a capture after
\* which it has a further capture from its landing square, legal_moves lists
\* a MultiCapture and does not list that first capture as a single Capture.
C13_MultiCaptureChains ==
    (asked # None /\ result.kind = "Ok")
    => \A e \in C13_FirstCaptures(board, asked[1]) :
          C13_Continues(board, e)
          => /\ \E j \in DOMAIN result.val :
                   result.val[j].move_type.tag = "MultiCapture"
             /\ \A j \in DOMAIN result.val : result.val[j] # e

\* ------------------------------------------------------------------- C14

\* C14 (capture excludes simple moves). A list that legal_moves returns for a
\* source and that holds a capture holds no simple Move.
C14_CaptureExcludesMoves ==
    (asked # None /\ result.kind = "Ok")
    => ((\E i \in DOMAIN result.val : IsCapture(result.val[i]))
        => \A j \in DOMAIN result.val : result.val[j].move_type.tag # "Move")

\* ------------------------------------------------------------------- C15

\* The squares of the diagonal neighbourhood of the source: the source and the
\* squares one and two steps away along the four diagonals.
C15_Near(b, source) ==
    {Index_new(source.x + q[1] * DirOffset(q[2])[1],
               source.y + q[1] * DirOffset(q[2])[2], source.orientation) :
        q \in {r \in (0..2) \X Directions :
                  OnBoard(b, source.x + r[1] * DirOffset(r[2])[1],
                          source.y + r[1] * DirOffset(r[2])[2])}}

\* The storage cells of a set of indices.
C15_Cells(b, indices) ==
    {AbsX(b, index.orientation, index.x)
        + AbsY(b, index.orientation, index.y) * b.width + 1 : index \in indices}

\* The board with every storage cell outside the given ones Empty.
C15_Keeping(b, cells) ==
    [b EXCEPT !.tiles =
        [i \in DOMAIN b.tiles |-> IF i \in cells THEN b.tiles[i] ELSE "Empty"]]

\* The board with every square outside the neighbourhood of the source Empty.
C15_Masked(b, source) == C15_Keeping(b, C15_Cells(b, C15_Near(b, source)))

\* The piece on the index has a capture in its list.
C15_HasCapture(b, index) ==
    LET r == get_allowed_moves_for(b, index) IN
    r.kind = "Ok" /\ \E i \in DOMAIN r.val : IsCapture(r.val[i])

\* A piece of p other than the one on the source has a capture.
C15_OtherCaptures(b, p, source) ==
    \E index \in BoardIndices(b, source.orientation) \ {source} :
        OwnerOf(TileAtIndex(b, index)) = p /\ C15_HasCapture(b, index)

\* C15 (no global forced capture). In every reachable state, legal_moves of
\* every source, in either frame, is what it is on the board that keeps the
\* diagonal neighbourhood of the source and is Empty elsewhere; and every
\* request for a listed simple move of a piece of the player to move that has
\* no capture returns Ok, also when another piece of that player has a capture.
C15_NoGlobalForcedCapture ==
    /\ \A o \in Players : \A source \in BoardIndices(board, o) :
          get_allowed_moves_for(board, source)
              = get_allowed_moves_for(C15_Masked(board, source), source)
    /\ \A d \in Descriptions :
          LET game == Game_of(board, state)
              m == parse_move_description(game, d)
          IN (/\ m.kind = "Ok"
              /\ OwnerOf(TileAtIndex(board, m.val.source)) = state.player
              /\ ~C15_HasCapture(board, m.val.source)
              /\ m.val.target \in LegalTargets(board, m.val.source))
             => LET out == make_move(game, d) IN
                /\ out.result.kind = "Ok"
                /\ out.move # None
                /\ out.move[1].move_type = MoveT(m.val.target)

\* The board before the simple move m that led to b.
C15_Before(b, m) ==
    set_tile(set_tile(b, m.source, TileAtIndex(b, TargetOf(m))).val,
             TargetOf(m), "Empty").val

C15_Witness ==
    /\ result.kind = "Ok"
    /\ last # None
    /\ ~IsCapture(last[1])
    /\ OwnerOf(TileAtIndex(board, TargetOf(last[1]))) = Enemy(state.player)
    /\ C15_OtherCaptures(C15_Before(board, last[1]), Enemy(state.player),
                         last[1].source)

\* ------------------------------------------------------------------- C16

\* The squares a king on the source reaches along a direction: the squares
\* k steps away, on the board, with every square from 1 to k steps Empty.
C16_KingTargets(b, source, direction) ==
    {Index_new(source.x + k * DirOffset(direction)[1],
               source.y + k * DirOffset(direction)[2], source.orientation) :
        k \in {n \in 1..(b.width + b.height) :
                 \A j \in 1..n :
                    /\ OnBoard(b, source.x + j * DirOffset(direction)[1],
                                  source.y + j * DirOffset(direction)[2])
                    /\ TileSeen(b, source.orientation,
                                source.x + j * DirOffset(direction)[1],
                                source.y + j * DirOffset(direction)[2]) = "Empty"}}

\* C16 (king moves). For a source that holds a king, legal_moves returns Ok
\* with a list that holds, in each of the four diagonal directions, a move to
\* every Empty square between the source and the first occupied square or
\* the edge of the board.
C16_KingMoves ==
    (/\ asked # None
     /\ OnBoard(board, asked[1].x, asked[1].y)
     /\ TileAtIndex(board, asked[1]) \in {"WhiteKing", "BlackKing"})
    => /\ result.kind = "Ok"
       /\ \A direction \in Directions :
            \A target \in C16_KingTargets(board, asked[1], direction) :
                \E i \in DOMAIN result.val : TargetOf(result.val[i]) = target

\* ------------------------------------------------------------------- C17

\* The answer for the source on the opening board of 8 x 8 is a list of simple
\* moves that holds a move to either of the two targets, and no capture.
C17_MovesTo(source, left, right) ==
    (board.height = 8 /\ board.width = 8 /\ asked = Some(source))
    => /\ TileAtIndex(board, source) = "White"
       /\ result.kind = "Ok"
       /\ \E i \in DOMAIN result.val : result.val[i].move_type = MoveT(left)
       /\ \E i \in DOMAIN result.val : result.val[i].move_type = MoveT(right)
       /\ \A i \in DOMAIN result.val : ~IsCapture(result.val[i])

\* C17 as stated (opening scenario). On the opening board of 8 x 8, legal_moves
\* for column C row 3, the index (2, 2) of White's frame, succeeds for a
\* White man there and lists simple moves to (1, 3) and (3, 3) and no capture.
C17_OpeningScenarioRow3 ==
    C17_MovesTo(Index_new(2, 2, "White"), Index_new(1, 3, "White"),
                Index_new(3, 3, "White"))

\* C17 as amended (opening scenario). On the opening board of 8 x 8,
\* legal_moves for column C row 6, the index (2, 5) of White's frame, succeeds
\* for the White man there and lists simple moves to (1, 4) and (3, 4) and no
\* capture.
C17_OpeningScenario ==
    C17_MovesTo(Index_new(2, 5, "White"), Index_new(1, 4, "White"),
                Index_new(3, 4, "White"))

C17_Witness ==
    /\ board.height = 8 /\ board.width = 8
    /\ asked = Some(Index_new(2, 5, "White"))
    /\ result.kind = "Ok"
    /\ Len(result.val) = 2

\* ------------------------------------------------------------------- C18

\* C18 (only the mover's pieces move). In every reachable state Turn(p), every
\* request that returns Ok has a source that holds a tile of p; a request
\* whose source holds a tile of the enemy of p does not return Ok and leaves
\* the board and the state as they were.
C18_OnlyMoversPieces ==
    \A d \in Descriptions :
        LET game == Game_of(board, state)
            m == parse_move_description(game, d)
            out == make_move(game, d)
        IN (state.tag = "Turn" /\ m.kind = "Ok")
           => /\ out.result.kind = "Ok"
                    => OwnerOf(TileAtIndex(board, m.val.source)) = state.player
              /\ OwnerOf(TileAtIndex(board, m.val.source)) = Enemy(state.player)
                    => (out.result.kind = "Err" /\ out.game = game)

\* ------------------------------------------------------------------- C19

C19_Count(b, p) == Cardinality(TilesOwnedBy(b, p))

\* C19 (piece counts). A call in Turn(p) that returns Ok leaves the number of
\* tiles of p as it was, and the number of tiles of the enemy of p one less
\* after a capture and as it was after a simple move.
C19_CountStep ==
    (result'.kind = "Ok" /\ last' # None /\ state.tag = "Turn")
    => /\ C19_Count(board', state.player) = C19_Count(board, state.player)
       /\ C19_Count(board', Enemy(state.player))
             = C19_Count(board, Enemy(state.player))
               - (IF IsCapture(last'[1]) THEN 1 ELSE 0)

C19_PieceCounts == [][C19_CountStep]_vars

\* ------------------------------------------------------------------- C20

\* C20 (dark-square invariant). In every state reached from the opening board
\* by make_move calls, every square with (x + y) even is Empty.
C20_DarkSquares ==
    \A x \in 0..(board.width - 1), y \in 0..(board.height - 1) :
        (x + y) % 2 = 0 => TileAtAbs(board, x, y) = "Empty"

C20_Witness ==
    /\ nmoves >= 3
    /\ result.kind = "Ok"
    /\ last # None
    /\ IsCapture(last[1])
    /\ TilesOwnedBy(board, "White") # {}
    /\ TilesOwnedBy(board, "Black") # {}

\* ------------------------------------------------------------------- C21

\* The storage cell of an index.
C21_Cell(b, index) ==
    AbsX(b, index.orientation, index.x)
    + AbsY(b, index.orientation, index.y) * b.width + 1

\* The storage cells whose tile differs between two boards.
C21_Changed(b, c) == {i \in DOMAIN b.tiles : c.tiles[i] # b.tiles[i]}

\* C21 (frame of a move). A call that returns Ok after a simple move has
\* changed exactly two squares, the source, now Empty, and the target, which
\* holds the tile that was on the source; after a capture it has changed
\* exactly three, these and the captured square; the width, the height and
\* the number of squares of the board are as they were.
C21_FrameStep ==
    (result'.kind = "Ok" /\ last' # None)
    => LET m == last'[1] IN
       /\ board'.width = board.width
       /\ board'.height = board.height
       /\ DOMAIN board'.tiles = DOMAIN board.tiles
       /\ board'.tiles[C21_Cell(board, m.source)] = "Empty"
       /\ board'.tiles[C21_Cell(board, TargetOf(m))]
             = board.tiles[C21_Cell(board, m.source)]
       /\ ~IsCapture(m) =>
             /\ C21_Changed(board, board')
                   = {C21_Cell(board, m.source), C21_Cell(board, TargetOf(m))}
             /\ Cardinality(C21_Changed(board, board')) = 2
       /\ IsCapture(m) =>
             /\ C21_Changed(board, board')
                   = {C21_Cell(board, m.source), C21_Cell(board, TargetOf(m)),
                      C21_Cell(board, m.move_type.captured_index)}
             /\ Cardinality(C21_Changed(board, board')) = 3

C21_FrameOfMove == [][C21_FrameStep]_vars

C21_Witness ==
    /\ nmoves >= 3
    /\ result.kind = "Ok"
    /\ last # None
    /\ IsCapture(last[1])
    /\ board.tiles[C21_Cell(board, last[1].source)] = "Empty"
    /\ board.tiles[C21_Cell(board, last[1].move_type.captured_index)] = "Empty"
    /\ board.tiles[C21_Cell(board, TargetOf(last[1]))] # "Empty"

\* ------------------------------------------------------------------- C22

\* C22 (no crash in move application). In every reachable state, every request
\* whose four coordinates are on the board makes make_move return Ok or Err:
\* no panic is reached.
C22_NoCrash ==
    \A d \in Descriptions :
        LET game == Game_of(board, state) IN
        parse_move_description(game, d).kind = "Ok"
        => make_move(game, d).result.kind \in {"Ok", "Err"}

C22_Witness ==
    /\ nmoves = MaxMoves
    /\ result.kind = "Ok"
    /\ last # None
    /\ state = Turn(IF nmoves % 2 = 0 THEN "White" ELSE "Black")

\* ------------------------------------------------------------------- C23

\* C23 (midpoint is on-board). For a source on the board, in either
\* orientation, and every direction whose two-step target exists and is on the
\* board, the one-step index exists and is on the board, get_tile accepts it,
\* and neither check_capture_move nor legal_moves ends in a failed unwrap.
C23_MidpointOnBoard ==
    (asked # None /\ validate_index(board, asked[1]))
    => /\ result.kind # "Panic"
       /\ \A direction \in Directions :
            LET target == translate(asked[1], TargetOffset(direction)[1],
                                    TargetOffset(direction)[2])
                captured == translate(asked[1], CapturedOffset(direction)[1],
                                      CapturedOffset(direction)[2])
            IN /\ check_capture_move(board, asked[1], direction).kind # "Panic"
               /\ (target # None /\ validate_index(board, target[1]))
                  => /\ captured # None
                     /\ validate_index(board, captured[1])
                     /\ get_tile(board, captured[1]).kind = "Ok"

\* A man of a board that is not square, asked about, with a capture target on
\* the board that is Empty, so that the captured index is unwrapped.
C23_Witness ==
    /\ asked # None
    /\ board.width # board.height
    /\ result.kind = "Ok"
    /\ \E direction \in Directions :
          check_capture_move(board, asked[1], direction)
              = Err("Tile to be captured does not belong to enemy")

\* ------------------------------------------------------------------- C24

\* The storage cell the index (x, y) of the orientation o addresses: (x, y)
\* itself for White, (width - 1 - x, height - 1 - y) for Black.
C24_Cell(b, index) ==
    IF index.orientation = "White"
    THEN index.x + index.y * b.width + 1
    ELSE (b.width - 1 - index.x) + (b.height - 1 - index.y) * b.width + 1

OutOfBoundsError == Err("Index outside of board")

\* C24 (orientation-aware access). A call of get_tile on an index of the board
\* returns the tile stored in the cell of C24_Cell and leaves the board as it
\* was; a call of set_tile returns Ok(()) and writes its tile there and
\* nowhere else; on an index with x >= width or y >= height either call
\* returns the out-of-bounds error and leaves the board as it was.
C24_AccessStep ==
    asked' # None
    => LET index == asked'[1] IN
       IF index.x < board.width /\ index.y < board.height
       THEN IF last' = None
            THEN /\ result' = Ok(board.tiles[C24_Cell(board, index)])
                 /\ board' = board
            ELSE /\ result' = Ok(Unit)
                 /\ board' = [board EXCEPT
                                !.tiles[C24_Cell(board, index)] = last'[1]]
       ELSE result' = OutOfBoundsError /\ board' = board

C24_OrientedAccess == [][C24_AccessStep]_vars

\* A King written through a Black index of a board that is not square, on a
\* cell that is not its own mirror image.
C24_Witness ==
    /\ asked # None
    /\ last = Some("BlackKing")
    /\ result = Ok(Unit)
    /\ asked[1].orientation = "Black"
    /\ board.width # board.height
    /\ board.tiles[C24_Cell(board, asked[1])] = "BlackKing"
    /\ C24_Cell(board, asked[1]) # asked[1].x + asked[1].y * board.width + 1

\* ------------------------------------------------------------------- C25

\* C25 (unique match). The targets of the entries of a list that legal_moves
\* returns are pairwise distinct: for the target of every entry, that entry is
\* the only one that matches it and the one find_move_in_available returns.
C25_UniqueMatch ==
    (asked # None /\ result.kind = "Ok")
    => /\ \A i, j \in DOMAIN result.val :
             i # j => TargetOf(result.val[i]) # TargetOf(result.val[j])
       /\ \A i \in DOMAIN result.val :
             /\ {j \in DOMAIN result.val :
                    MatchesTarget(result.val[j], TargetOf(result.val[i]))} = {i}
             /\ find_move_in_available(result.val,
                    Move_new(asked[1], TargetOf(result.val[i])))
                  = Some(result.val[i])

\* A man with a simple move and two captures.
C25_Witness ==
    /\ asked # None
    /\ result.kind = "Ok"
    /\ Len(result.val) = 3
    /\ Cardinality({i \in DOMAIN result.val : IsCapture(result.val[i])}) = 2

====
